---- MODULE Spec2Model ----
(***************************************************************************)
(* The audio-quiz pipeline of main.py: one sequential run of main(), with  *)
(* the three remote collaborators (language model, text-to-speech, music   *)
(* generation), the audio library and the filesystem as the environment.   *)
(*                                                                         *)
(* An audio segment is the sequence of the clips it was concatenated from; *)
(* a clip carries the event it came from and its duration in milliseconds. *)
(* The model reply is consumed by the two for-loops of main() one element  *)
(* at a time and in order, so each track and each event is drawn from the  *)
(* environment at the moment the loop reads it.                            *)
(***************************************************************************)
EXTENDS Integers, Sequences, FiniteSets, TLC

\* ------------------------------------------------------------ bounds
\* Tracks iterated in one run, and events read in one run (all tracks).
MaxTracks == 2
MaxEvents == 2
\* Longest dialogue clip, in ms, of the runs that start at the music request.
MaxDialogueMs == 4500
\* Longest main mix and longest background clip, in ms, of the runs that start
\* at the looping of the background.
MaxMixMs == 60
MaxBgmMs == 25

\* ------------------------------------------------- program constants
BGM_DURATION_SECONDS == 30

VARIABLES
    pc,                     \* position of main()
    prompt_req,             \* the prompt request handed to get_audio_script_json
    music_client,           \* one call of generate_and_save_music, step by step
    AudioSegment,           \* the pydub import succeeded (main.py 18-23)
    client,                 \* the OpenAI client was initialised (call_openai_api.py 13-18)
    audio_json_output,      \* what get_audio_script_json returned
    temp_dir,               \* TEMP_AUDIO_DIR exists on disk
    temp_created,           \* this run executed os.makedirs(TEMP_AUDIO_DIR)
    final_audio,            \* the main mix
    track_audio,            \* the current track's buffer
    processing_successful,  \* the run's success flag
    i,                      \* number of the track being processed (1-based)
    j,                      \* number of the event being processed (1-based)
    events_read,            \* events read so far in the run
    event,                  \* the event of the current iteration
    dialogue_file,          \* the dialogue clip written for the current event
    dialogue_duration_ms,   \* its measured duration
    music_file,             \* the music clip written for the current event
    duration_sec,           \* the standalone event's requested duration
    produced,               \* every clip assigned to event_audio, in order
    calls,                  \* the collaborator calls made, in order
    stdout,                 \* the Warning/ERROR lines printed, in order
    exports,                \* the export attempts, in order
    bgm_mix,                \* loops_needed and the trimmed BGM length
    note                    \* the closing "there were errors" line was printed

vars == << pc, prompt_req, music_client, AudioSegment, client,
           audio_json_output, temp_dir, temp_created,
           final_audio, track_audio, processing_successful, i, j, events_read,
           event, dialogue_file, dialogue_duration_ms, music_file, duration_sec,
           produced, calls, stdout, exports, bgm_mix, note >>

\* ------------------------------------------------------ audio library
\* len(segment): pydub durations are in milliseconds.
RECURSIVE Dur(_)
Dur(seg) == IF seg = << >> THEN 0 ELSE Head(seg).ms + Dur(Tail(seg))

Clip(ti, ej, kind, ms) == [i |-> ti, j |-> ej, kind |-> kind, ms |-> ms]

\* math.ceil(a / b) for a >= 0, b > 0.
Ceil(a, b) == (a + b - 1) \div b


\* ------------------------------------------------------- Python values
\* A JSON value by its Python type after json.loads; v is its integer value
\* (the integer part of a float, 1 and 0 for true and false).
Value(t, v) == [t |-> t, v |-> v]
Absent == Value("absent", 0)

\* isinstance(x, int): bool is a subclass of int in Python.
IsInt(x) == x.t \in {"int", "bool"}

\* The 'duration' values a reply may carry: 2, 0, -1, 2.5, true, "5".
DurationValues ==
    { Value("int", 2), Value("int", 0), Value("int", -1),
      Value("float", 2), Value("bool", 1), Value("str", 5) }

\* ------------------------------------------------------------- events
\* An event of a track: a dict with some of the keys, or any other JSON value.
Event(t, keys, d) == [t |-> t, keys |-> keys, duration |-> d]
NoEvent == Event("none", {}, Absent)

Events ==
    { Event("nondict", {}, Absent) }
    \cup { Event("dict", k, Absent) :
             k \in { {"dialogue", "music"}, {"dialogue"}, {"music"}, {} } }
    \cup { Event("dict", {"music", "duration"}, d) : d \in DurationValues }
    \cup { Event("dict", k \cup {"duration"}, Value("int", 2)) :
             k \in { {"dialogue", "music"}, {"dialogue"}, {} } }

\* Variant: the branch looks for 'dialogue' only.
IsDialogueEventByDialogue(e) == "dialogue" \in e.keys

\* "dialogue" in event and "music" in event
IsDialogueEvent(e) == "dialogue" \in e.keys /\ "music" \in e.keys

\* "music" in event and "duration" in event and "dialogue" not in event
IsStandaloneEvent(e) ==
    "music" \in e.keys /\ "duration" \in e.keys /\ "dialogue" \notin e.keys

\* not isinstance(duration_sec, int) or duration_sec <= 0
InvalidDuration(d) == ~IsInt(d) \/ d.v <= 0

\* -------------------------------------------------------------- files
File(readable, ms) == [exists |-> TRUE, readable |-> readable, ms |-> ms]
NoFile == [exists |-> FALSE, readable |-> FALSE, ms |-> 0]

\* ---------------------------------------------- language-model client
\* The parsed reply by what main() looks at: its Python type, its truth value
\* and its 'script' entry ("list" is a non-empty list, "falsy" an empty list,
\* null, 0 or "", "nonlist" any other value).
Reply(t, truthy, script) == [t |-> t, truthy |-> truthy, script |-> script]
NoReply == Reply("none", FALSE, "missing")

ParsedReplies ==
    { Reply("dict", TRUE, s) : s \in {"list", "missing", "falsy", "nonlist"} }
    \cup { Reply("dict", FALSE, "missing"),
           Reply("nondict", TRUE, "missing"),
           Reply("nondict", FALSE, "missing") }

OpenAIResponse(status, content, parsed) ==
    [status |-> status, content |-> content, parsed |-> parsed]

OpenAIResponses ==
    { OpenAIResponse("ok", "json", r) : r \in ParsedReplies }
    \cup { OpenAIResponse("ok", "not_json", NoReply),
           OpenAIResponse("api_error", "none", NoReply),
           OpenAIResponse("unavailable", "none", NoReply) }

\* create_music_gen_prompt: the request has three entries and both prompts are
\* non-empty strings. An entry is TRUE when it is there and not empty.
create_music_gen_prompt ==
    [system_prompt |-> TRUE, prompt |-> TRUE, json_out_example |-> TRUE]

\* The requests get_audio_script_json may be handed: the one main() builds, and
\* requests that lack a prompt.
PromptRequests ==
    { create_music_gen_prompt }
    \cup { r \in [system_prompt : BOOLEAN, prompt : BOOLEAN,
                  json_out_example : BOOLEAN] :
              ~(r.system_prompt /\ r.prompt) }

\* if not prompt_req: a dict is falsy when it has no entry at all.
PromptRequestGiven(prompt_request) ==
    prompt_request.system_prompt \/ prompt_request.prompt
        \/ prompt_request.json_out_example

\* Variant: the request is sent before the prompts are looked at.
OpenAICallMadeFirst(cl, prompt_request) == cl

\* The request reaches the network only past both early returns.
OpenAICallMade(cl, prompt_request) ==
    cl /\ prompt_request.system_prompt /\ prompt_request.prompt

\* Variant: a reply that does not parse is handed on as a dict holding the text.
get_audio_script_json_raw(cl, prompt_request, resp) ==
    IF ~cl THEN NoReply
    ELSE IF ~prompt_request.system_prompt \/ ~prompt_request.prompt THEN NoReply
    ELSE IF resp.status # "ok" THEN NoReply
    ELSE IF resp.content # "json" THEN Reply("dict", TRUE, "missing")
    ELSE resp.parsed

get_audio_script_json(cl, prompt_request, resp) ==
    IF ~cl THEN NoReply
    ELSE IF ~prompt_request.system_prompt \/ ~prompt_request.prompt THEN NoReply
    ELSE IF resp.status # "ok" THEN NoReply
    ELSE IF resp.content # "json" THEN NoReply
    ELSE resp.parsed

\* --------------------------------------------------------- TTS client
DialogueLengths == {4200, 2000}

TtsResponse(result, readable, ms) ==
    [result |-> result, readable |-> readable, ms |-> ms]

TtsResponses ==
    { TtsResponse("ok", TRUE, ms) : ms \in DialogueLengths }
    \cup { TtsResponse("ok", FALSE, 0) }
    \cup { TtsResponse(r, FALSE, 0) :
             r \in {"timeout", "http_error", "conn_error", "os_error"} }

generate_and_save_dialogue(resp) == resp.result = "ok"

\* ------------------------------------------------------- music client
\* The clip may differ from the requested length by a margin.
MusicDrift == {-900, 0, 50}

MusicResponse(post, url, payload, write, ms) ==
    [post |-> post, url |-> url, payload |-> payload, write |-> write, ms |-> ms]

MusicResponses(sec) ==
    { MusicResponse("ok", u, "ok", TRUE, 1000 * sec + d) :
        u \in {"data", "http"}, d \in MusicDrift }
    \cup { MusicResponse(p, "none", "none", FALSE, 0) :
             p \in {"timeout", "http_error", "conn_error", "not_json"} }
    \cup { MusicResponse("ok", "none", "none", FALSE, 0),
           MusicResponse("ok", "data", "bad_base64", FALSE, 0),
           MusicResponse("ok", "http", "download_error", FALSE, 0),
           MusicResponse("ok", "http", "empty", FALSE, 0),
           MusicResponse("ok", "data", "ok", FALSE, 0) }

generate_and_save_music(resp) ==
    /\ resp.post = "ok"
    /\ resp.url # "none"
    /\ resp.payload = "ok"
    /\ resp.write

\* ------------------------------------------------------------ logging
\* One entry per request sent; sec is the length asked of the music service
\* (seconds_total, music_gen.py 43-47) and 0 for the other services.
Call(svc, ti, ej, ok) ==
    [svc |-> svc, i |-> ti, j |-> ej, ok |-> ok, sec |-> 0]
MusicCall(ti, ej, ok, sec) == [Call("music", ti, ej, ok) EXCEPT !.sec = sec]
Line(level, what, ti, ej) == [level |-> level, what |-> what, i |-> ti, j |-> ej]
Export(file, ok) == [file |-> file, ok |-> ok]
NoBgm == [loops_needed |-> 0, ms |-> 0]

\* ----------------------------------------------------- control flow
\* Variant: `continue` is missing and the code falls through to the music request.
AfterContinueFallsThrough == "event_music"

\* Variant: after a failure the event is started again.
AfterContinueRetries == "dialogue"

\* Where `continue` in the event loop leads: the next iteration of the loop.
AfterContinue == "event_loop"

\* Variant: the failure branch leaves the flag as it is.
MarkFailedSkipped == TRUE

\* processing_successful = False
MarkFailed == FALSE

\* if event_audio: track_audio += event_audio
\* (event_audio is << >> for None; an empty segment is falsy as well).
AppendEvent(track, event_audio) ==
    IF Dur(event_audio) > 0 THEN track \o event_audio ELSE track

\* Variant: the track is put in front of the mix.
AppendTrackInFront(final, track) ==
    IF Dur(track) > 0 THEN track \o final ELSE final

\* if len(track_audio) > 0: final_audio += track_audio
AppendTrack(final, track) ==
    IF Dur(track) > 0 THEN final \o track ELSE final

\* Variant: the export does not look at the flag.
ExportConditionIgnoresFlag == Dur(final_audio) > 0

\* len(final_audio) > 0 and processing_successful
ExportCondition == Dur(final_audio) > 0 /\ processing_successful

\* The names of one iteration are rebound before they are read again, and the
\* files of an event are named after it and never read by a later event.
EndEvent ==
    /\ event' = NoEvent
    /\ dialogue_file' = NoFile
    /\ dialogue_duration_ms' = 0
    /\ music_file' = NoFile
    /\ duration_sec' = Absent

KeepEvent ==
    UNCHANGED << event, dialogue_file, dialogue_duration_ms, music_file,
                 duration_sec >>

KeepRunOfMain ==
    UNCHANGED << AudioSegment, client, audio_json_output, temp_dir,
                 temp_created, exports, bgm_mix, note >>

KeepRun == KeepRunOfMain /\ UNCHANGED << prompt_req, music_client >>

KeepLoop == UNCHANGED << i, j, events_read >>

KeepAudio == UNCHANGED << final_audio, track_audio, produced >>

\* generate_and_save_music is not being followed step by step.
NoMusicClient ==
    [step |-> "idle", api_key |-> TRUE, prompt_is_str |-> TRUE,
     resp |-> MusicResponse("none", "none", "none", FALSE, 0),
     posts |-> 0, fetches |-> 0, audio_content |-> "none", written |-> FALSE,
     result |-> "none"]

\* ---------------------------------------------------------------- Init
Init ==
    /\ pc = "start"
    /\ prompt_req = create_music_gen_prompt
    /\ music_client = NoMusicClient
    /\ AudioSegment \in BOOLEAN
    /\ client \in BOOLEAN
    /\ audio_json_output = NoReply
    /\ temp_dir \in BOOLEAN          \* a previous run may have left it behind
    /\ temp_created = FALSE
    /\ final_audio = << >>
    /\ track_audio = << >>
    /\ processing_successful = TRUE
    /\ i = 0
    /\ j = 0
    /\ events_read = 0
    /\ event = NoEvent
    /\ dialogue_file = NoFile
    /\ dialogue_duration_ms = 0
    /\ music_file = NoFile
    /\ duration_sec = Absent
    /\ produced = << >>
    /\ calls = << >>
    /\ stdout = << >>
    /\ exports = << >>
    /\ bgm_mix = NoBgm
    /\ note = FALSE

\* main.py 48-120: without pydub the run returns at once, and so it does when
\* the prompt request is empty (the one built from the sample script never is).
Start ==
    /\ pc = "start"
    /\ pc' = IF AudioSegment /\ PromptRequestGiven(prompt_req)
             THEN "call_api" ELSE "done"
    /\ KeepRun /\ KeepLoop /\ KeepAudio /\ KeepEvent
    /\ UNCHANGED << processing_successful, calls, stdout >>

\* main.py 122-127 with call_openai_api.py 32-77.
CallOpenAI ==
    /\ pc = "call_api"
    /\ \E resp \in OpenAIResponses :
         /\ audio_json_output' =
                get_audio_script_json(client, prompt_req, resp)
         /\ calls' = IF OpenAICallMade(client, prompt_req)
                     THEN Append(calls, Call("openai", 0, 0,
                                 resp.status = "ok" /\ resp.content = "json"))
                     ELSE calls
    /\ pc' = IF audio_json_output'.truthy THEN "setup" ELSE "done"
    /\ UNCHANGED << prompt_req, music_client >>
    /\ UNCHANGED << AudioSegment, client, temp_dir, temp_created, exports,
                    bgm_mix, note >>
    /\ KeepLoop /\ KeepAudio /\ KeepEvent
    /\ UNCHANGED << processing_successful, stdout >>

\* Variant: the isinstance check is left out.
ScriptUsableUntyped(script_data) == script_data \in {"list", "nonlist"}

\* The negation of: not script_data or not isinstance(script_data, list)
ScriptUsable(script_data) == script_data = "list"

\* main.py 132-148: the directories are made before 'script' is looked at; a
\* reply that is no dict has no .get and the AttributeError leaves main().
Setup ==
    /\ pc = "setup"
    /\ temp_dir' = TRUE
    /\ temp_created' = TRUE
    /\ final_audio' = << >>
    /\ IF audio_json_output.t # "dict"
       THEN /\ pc' = "crashed"
            /\ UNCHANGED << stdout, processing_successful >>
       ELSE IF ~ScriptUsable(audio_json_output.script)
       THEN /\ pc' = "done"
            /\ stdout' = Append(stdout, Line("Error", "script_missing", 0, 0))
            /\ UNCHANGED processing_successful
       ELSE /\ pc' = "track_loop"
            /\ processing_successful' = TRUE
            /\ UNCHANGED stdout
    /\ UNCHANGED << prompt_req, music_client >>
    /\ UNCHANGED << AudioSegment, client, audio_json_output, exports, bgm_mix,
                    note, track_audio, produced, calls >>
    /\ KeepLoop /\ KeepEvent

\* main.py 151-157: the next track, if any; a track that is no list is skipped.
\* The script is a non-empty list, so the first iteration always happens.
TrackLoop ==
    /\ pc = "track_loop"
    /\ \/ /\ i >= 1
          /\ pc' = "export_main"
          /\ UNCHANGED << i, j, track_audio, stdout >>
       \/ /\ i < MaxTracks
          /\ i' = i + 1
          /\ \E is_list \in BOOLEAN :
               IF is_list
               THEN /\ pc' = "event_loop"
                    /\ track_audio' = << >>
                    /\ j' = 0
                    /\ UNCHANGED stdout
               ELSE /\ pc' = "track_loop"
                    /\ stdout' = Append(stdout,
                                        Line("Warning", "track_not_list", i + 1, 0))
                    /\ UNCHANGED << j, track_audio >>
    /\ KeepRun /\ KeepEvent
    /\ UNCHANGED << final_audio, produced, events_read, processing_successful,
                    calls >>

\* main.py 159-161: the next event of the track, if any.
EventLoop ==
    /\ pc = "event_loop"
    /\ \/ /\ pc' = "track_end"
          /\ UNCHANGED << j, events_read, event >>
       \/ /\ events_read < MaxEvents
          /\ events_read' = events_read + 1
          /\ j' = j + 1
          /\ \E e \in Events : event' = e
          /\ pc' = "dispatch"
    /\ KeepRun /\ KeepAudio
    /\ UNCHANGED << i, dialogue_file, dialogue_duration_ms, music_file,
                    duration_sec, processing_successful, calls, stdout >>

\* main.py 162-172, 224-233, 248-251: event.keys() raises on a value that is no
\* dict; otherwise the event is dispatched on the keys it carries.
Dispatch ==
    /\ pc = "dispatch"
    /\ IF event.t # "dict"
       THEN /\ pc' = "except"
            /\ KeepEvent
            /\ UNCHANGED stdout
       ELSE IF IsDialogueEvent(event)
       THEN /\ pc' = "dialogue"
            /\ KeepEvent
            /\ UNCHANGED stdout
       ELSE IF IsStandaloneEvent(event)
       THEN IF InvalidDuration(event.duration)
            THEN /\ pc' = AfterContinue
                 /\ stdout' = Append(stdout, Line("Warning", "invalid_duration", i, j))
                 /\ EndEvent
            ELSE /\ pc' = "standalone"
                 /\ duration_sec' = event.duration
                 /\ UNCHANGED << event, dialogue_file, dialogue_duration_ms,
                                 music_file, stdout >>
       ELSE /\ pc' = AfterContinue
            /\ stdout' = Append(stdout, Line("Warning", "unrecognized", i, j))
            /\ EndEvent
    /\ KeepRun /\ KeepLoop /\ KeepAudio
    /\ UNCHANGED << processing_successful, calls >>

\* Variant: the quotient is rounded down.
MusicDurationSecFloor(ms) == ms \div 1000

\* math.ceil(dialogue_duration_ms / 1000)
MusicDurationSec(ms) == Ceil(ms, 1000)

\* Variant: the result is as long as the longer of the two clips.
OverlayLongest(base, other) ==
    Clip(base.i, base.j, "mix", IF other.ms > base.ms THEN other.ms ELSE base.ms)

\* dialogue_segment.overlay(quieter_music): the result is as long as the base.
Overlay(base, other) == Clip(base.i, base.j, "mix", base.ms)

\* main.py 173-177 with dialogue_gen.py 39-84.
GenerateDialogue ==
    /\ pc = "dialogue"
    /\ \E resp \in TtsResponses :
         /\ calls' = Append(calls, Call("tts", i, j, generate_and_save_dialogue(resp)))
         /\ IF generate_and_save_dialogue(resp)
            THEN /\ dialogue_file' = File(resp.readable, resp.ms)
                 /\ pc' = "duration"
                 /\ UNCHANGED << event, dialogue_duration_ms, music_file,
                                 duration_sec, processing_successful, stdout >>
            ELSE /\ stdout' = Append(stdout, Line("ERROR", "dialogue_failed", i, j))
                 /\ processing_successful' = MarkFailed
                 /\ pc' = AfterContinue
                 /\ EndEvent
    /\ KeepRun /\ KeepLoop /\ KeepAudio

\* main.py 179-184 with get_audio_duration_ms, main.py 33-41.
GetDuration ==
    /\ pc = "duration"
    /\ IF dialogue_file.readable
       THEN /\ dialogue_duration_ms' = dialogue_file.ms
            /\ pc' = "event_music"
            /\ UNCHANGED << event, dialogue_file, music_file, duration_sec,
                            processing_successful, stdout >>
       ELSE /\ stdout' = Append(stdout, Line("ERROR", "no_duration", i, j))
            /\ processing_successful' = MarkFailed
            /\ pc' = AfterContinue
            /\ EndEvent
    /\ KeepRun /\ KeepLoop /\ KeepAudio
    /\ UNCHANGED calls

\* main.py 186-198 with music_gen.py 55-162. When the music fails the dialogue
\* clip is loaded into event_audio and the loop continues with the next event.
GenerateEventMusic ==
    /\ pc = "event_music"
    /\ \E resp \in MusicResponses(MusicDurationSec(dialogue_duration_ms)) :
         /\ calls' = Append(calls,
                MusicCall(i, j, generate_and_save_music(resp),
                          MusicDurationSec(dialogue_duration_ms)))
         /\ IF generate_and_save_music(resp)
            THEN /\ music_file' = File(TRUE, resp.ms)
                 /\ pc' = "overlay"
                 /\ UNCHANGED << event, dialogue_file, dialogue_duration_ms,
                                 duration_sec, processing_successful, stdout,
                                 produced >>
            ELSE /\ \E loaded \in BOOLEAN :
                      IF loaded
                      THEN /\ produced' = Append(produced,
                                  Clip(i, j, "dialogue", dialogue_file.ms))
                           /\ stdout' = Append(stdout,
                                  Line("ERROR", "music_failed", i, j))
                           /\ UNCHANGED processing_successful
                      ELSE /\ stdout' = stdout \o
                                  << Line("ERROR", "music_failed", i, j),
                                     Line("ERROR", "load_dialogue", i, j) >>
                           /\ processing_successful' = MarkFailed
                           /\ UNCHANGED produced
                 /\ pc' = AfterContinue
                 /\ EndEvent
    /\ KeepRun /\ KeepLoop
    /\ UNCHANGED << final_audio, track_audio >>

\* main.py 200-221 and 253-256: the overlay, or the dialogue alone when loading
\* or overlaying raises, is appended to the track.
OverlayEvent ==
    /\ pc = "overlay"
    /\ \E outcome \in {"ok", "music_unloadable", "dialogue_unloadable"} :
         LET dialogue_segment == Clip(i, j, "dialogue", dialogue_file.ms)
             music_segment == Clip(i, j, "music", music_file.ms)
             event_audio ==
                 IF outcome = "ok"
                 THEN << Overlay(dialogue_segment, music_segment) >>
                 ELSE IF outcome = "music_unloadable"
                 THEN << dialogue_segment >>
                 ELSE << >>
         IN  /\ produced' = produced \o event_audio
             /\ track_audio' = AppendEvent(track_audio, event_audio)
             /\ processing_successful' =
                    IF outcome = "ok" THEN processing_successful ELSE MarkFailed
             /\ stdout' =
                    IF outcome = "ok" THEN stdout
                    ELSE IF outcome = "music_unloadable"
                    THEN Append(stdout, Line("ERROR", "overlay", i, j))
                    ELSE stdout \o << Line("ERROR", "overlay", i, j),
                                      Line("ERROR", "load_dialogue", i, j) >>
    /\ pc' = "event_loop"
    /\ EndEvent
    /\ KeepRun /\ KeepLoop
    /\ UNCHANGED << final_audio, calls >>

\* main.py 235-246 and 253-256.
StandaloneMusic ==
    /\ pc = "standalone"
    /\ \E resp \in MusicResponses(duration_sec.v) :
         /\ calls' = Append(calls,
                MusicCall(i, j, generate_and_save_music(resp), duration_sec.v))
         /\ IF generate_and_save_music(resp)
            THEN \E loaded \in BOOLEAN :
                   LET event_audio ==
                           IF loaded THEN << Clip(i, j, "music", resp.ms) >>
                           ELSE << >>
                   IN  /\ produced' = produced \o event_audio
                       /\ track_audio' = AppendEvent(track_audio, event_audio)
                       /\ processing_successful' =
                              IF loaded THEN processing_successful ELSE MarkFailed
                       /\ stdout' =
                              IF loaded THEN stdout
                              ELSE Append(stdout, Line("ERROR", "load_music", i, j))
                       /\ pc' = "event_loop"
            ELSE /\ stdout' = Append(stdout, Line("ERROR", "standalone_failed", i, j))
                 /\ processing_successful' = MarkFailed
                 /\ pc' = AfterContinue
                 /\ UNCHANGED << produced, track_audio >>
    /\ EndEvent
    /\ KeepRun /\ KeepLoop
    /\ UNCHANGED final_audio

\* main.py 259-264: the finished track is appended to the main mix.
TrackEnd ==
    /\ pc = "track_end"
    /\ final_audio' = AppendTrack(final_audio, track_audio)
    /\ track_audio' = << >>
    /\ stdout' = IF Dur(track_audio) > 0 THEN stdout
                 ELSE Append(stdout, Line("Warning", "empty_track", i, 0))
    /\ pc' = "track_loop"
    /\ KeepRun /\ KeepLoop /\ KeepEvent
    /\ UNCHANGED << produced, processing_successful, calls >>

\* main.py 266-278: the first export; a failed export clears the flag.
ExportMain ==
    /\ pc = "export_main"
    /\ IF ExportCondition
       THEN \E ok \in BOOLEAN :
              /\ exports' = Append(exports, Export("main", ok))
              /\ processing_successful' =
                     IF ok THEN processing_successful ELSE MarkFailed
              /\ stdout' = IF ok THEN stdout
                           ELSE Append(stdout, Line("ERROR", "export_main", 0, 0))
       ELSE UNCHANGED << exports, processing_successful, stdout >>
    /\ pc' = "bgm"
    /\ UNCHANGED << prompt_req, music_client >>
    /\ UNCHANGED << AudioSegment, client, audio_json_output, temp_dir,
                    temp_created, bgm_mix, note, calls >>
    /\ KeepLoop /\ KeepAudio /\ KeepEvent

\* Variant: the quotient is rounded down.
LoopsNeededFloor(final_duration_ms, bgm_ms) == final_duration_ms \div bgm_ms

\* loops_needed = math.ceil(final_duration_ms / len(bgm_segment))
LoopsNeeded(final_duration_ms, bgm_ms) == Ceil(final_duration_ms, bgm_ms)

\* (bgm_segment * loops_needed)[:final_duration_ms]
ExtendedBgm(final_duration_ms, bgm_ms) ==
    LET looped == bgm_ms * LoopsNeeded(final_duration_ms, bgm_ms)
    IN  IF looped < final_duration_ms THEN looped ELSE final_duration_ms

\* main.py 280-336: the looped background under the main mix and the second
\* export; nothing here touches the flag.
Bgm ==
    /\ pc = "bgm"
    /\ IF ExportCondition
       THEN \E described \in BOOLEAN :
              IF described
              THEN \E resp \in MusicResponses(BGM_DURATION_SECONDS) :
                     /\ calls' = Append(calls,
                            MusicCall(0, 0, generate_and_save_music(resp),
                                      BGM_DURATION_SECONDS))
                     /\ IF generate_and_save_music(resp)
                        THEN \E outcome \in {"ok", "unloadable", "export_failed"} :
                               /\ bgm_mix' =
                                      IF outcome = "unloadable" THEN bgm_mix
                                      ELSE [loops_needed |->
                                                LoopsNeeded(Dur(final_audio), resp.ms),
                                            ms |->
                                                ExtendedBgm(Dur(final_audio), resp.ms)]
                               /\ exports' =
                                      IF outcome = "unloadable" THEN exports
                                      ELSE Append(exports,
                                                  Export("bgm", outcome = "ok"))
                               /\ stdout' =
                                      IF outcome = "ok" THEN stdout
                                      ELSE Append(stdout,
                                                  Line("ERROR", "bgm_version", 0, 0))
                        ELSE /\ stdout' = Append(stdout,
                                                 Line("ERROR", "bgm_failed", 0, 0))
                             /\ UNCHANGED << bgm_mix, exports >>
              ELSE UNCHANGED << calls, bgm_mix, exports, stdout >>
       ELSE UNCHANGED << calls, bgm_mix, exports, stdout >>
    /\ pc' = "finally"
    /\ UNCHANGED << prompt_req, music_client >>
    /\ UNCHANGED << AudioSegment, client, audio_json_output, temp_dir,
                    temp_created, note, processing_successful >>
    /\ KeepLoop /\ KeepAudio /\ KeepEvent

\* main.py 338-340: any exception raised inside the try block.
Except ==
    /\ pc = "except"
    /\ processing_successful' = FALSE
    /\ stdout' = Append(stdout, Line("ERROR", "unexpected", i, j))
    /\ pc' = "finally"
    /\ KeepRun /\ KeepLoop /\ KeepAudio /\ KeepEvent
    /\ UNCHANGED calls

\* main.py 341-349: the temporary directory is removed (shutil.rmtree is taken
\* to succeed; when it raises, the code only prints a warning).
Finally ==
    /\ pc = "finally"
    /\ temp_dir' = FALSE
    /\ pc' = "finish"
    /\ UNCHANGED << prompt_req, music_client >>
    /\ UNCHANGED << AudioSegment, client, audio_json_output, temp_created,
                    exports, bgm_mix, note, processing_successful, calls, stdout >>
    /\ KeepLoop /\ KeepAudio /\ KeepEvent

\* Variant: the closing note is never printed.
FinishSilent ==
    /\ pc = "finish"
    /\ note' = FALSE
    /\ pc' = "done"
    /\ UNCHANGED << prompt_req, music_client >>
    /\ UNCHANGED << AudioSegment, client, audio_json_output, temp_dir,
                    temp_created, exports, bgm_mix, processing_successful,
                    calls, stdout >>
    /\ KeepLoop /\ KeepAudio /\ KeepEvent

\* main.py 351-353: the closing note.
Finish ==
    /\ pc = "finish"
    /\ note' = ~processing_successful
    /\ pc' = "done"
    /\ UNCHANGED << prompt_req, music_client >>
    /\ UNCHANGED << AudioSegment, client, audio_json_output, temp_dir,
                    temp_created, exports, bgm_mix, processing_successful,
                    calls, stdout >>
    /\ KeepLoop /\ KeepAudio /\ KeepEvent

Next ==
    \/ Start
    \/ CallOpenAI
    \/ Setup
    \/ TrackLoop
    \/ EventLoop
    \/ Dispatch
    \/ GenerateDialogue
    \/ GetDuration
    \/ GenerateEventMusic
    \/ OverlayEvent
    \/ StandaloneMusic
    \/ TrackEnd
    \/ ExportMain
    \/ Bgm
    \/ Except
    \/ Finally
    \/ Finish

Spec == Init /\ [][Next]_vars

\* ------------------------------------------- the music request of an event
\* main.py 186-190 reached with a dialogue clip of any length up to
\* MaxDialogueMs: the first event of the first track is a dialogue event whose
\* speech was synthesised and measured.
InitCeil ==
    /\ pc = "event_music"
    /\ prompt_req = create_music_gen_prompt
    /\ music_client = NoMusicClient
    /\ AudioSegment = TRUE
    /\ client = TRUE
    /\ audio_json_output = Reply("dict", TRUE, "list")
    /\ temp_dir = TRUE
    /\ temp_created = TRUE
    /\ final_audio = << >>
    /\ track_audio = << >>
    /\ processing_successful = TRUE
    /\ i = 1
    /\ j = 1
    /\ events_read = 1
    /\ event = Event("dict", {"dialogue", "music"}, Absent)
    /\ dialogue_duration_ms \in 0..MaxDialogueMs
    /\ dialogue_file = File(TRUE, dialogue_duration_ms)
    /\ music_file = NoFile
    /\ duration_sec = Absent
    /\ produced = << >>
    /\ calls = << Call("openai", 0, 0, TRUE), Call("tts", 1, 1, TRUE) >>
    /\ stdout = << >>
    /\ exports = << >>
    /\ bgm_mix = NoBgm
    /\ note = FALSE

NextCeil == GenerateEventMusic

SpecCeil == InitCeil /\ [][NextCeil]_vars

\* ---------------------------------------------------------------------
\* Properties
\* ---------------------------------------------------------------------
Last(seq) == seq[Len(seq)]

\* The step is a failed music-synthesis call for a dialogue event whose
\* dialogue clip could then be loaded.
MusicFallbackStep ==
    /\ pc = "event_music"
    /\ Len(calls') = Len(calls) + 1
    /\ ~Last(calls').ok
    /\ produced' = Append(produced, Clip(i, j, "dialogue", dialogue_file.ms))

\* C1: when the dialogue of a dialogue event was synthesised and its music
\* synthesis fails, the raw dialogue clip is appended to the track buffer, the
\* run is marked degraded, and the loop goes on with the next event.
C1_MusicFailureKeepsDialogue ==
    [][ MusicFallbackStep =>
          /\ track_audio' =
                 Append(track_audio, Clip(i, j, "dialogue", dialogue_file.ms))
          /\ ~processing_successful'
          /\ pc' = "event_loop" ]_vars

\* C2: once this run has created the temporary directory, the directory does
\* not exist when main() returns, whatever the exit path.
C2_TempDirAbsentOnReturn ==
    (pc = "done" /\ temp_created) => ~temp_dir

\* The event matches neither the dialogue shape nor the standalone shape.
NeitherShape(e) ==
    \/ e.t # "dict"
    \/ /\ ~("dialogue" \in e.keys /\ "music" \in e.keys)
       /\ ~("music" \in e.keys /\ "duration" \in e.keys /\ "dialogue" \notin e.keys)

\* C3: an event of neither shape, a value that is no JSON object included, is
\* skipped with one diagnostic and is never fatal: the loop goes on with the
\* next event and the degraded flag is left as it was.
C3_InvalidEventNeverFatal ==
    [][ (pc = "dispatch" /\ NeitherShape(event)) =>
          /\ pc' = "event_loop"
          /\ i' = i /\ j' = j
          /\ processing_successful' = processing_successful
          /\ track_audio' = track_audio
          /\ Len(stdout') = Len(stdout) + 1
          /\ Last(stdout').level = "Warning" ]_vars

\* C4: after all tracks are processed the main mix lasts exactly as long as
\* all event clips that were produced, dialogue-only fallbacks included.
C4_MixDurationIsSumOfProduced ==
    pc = "export_main" => Dur(final_audio) = Dur(produced)

\* Script order of two clips: (track, event) compared lexicographically.
Before(a, b) == a.i < b.i \/ (a.i = b.i /\ a.j < b.j)

InScriptOrder(seg) ==
    \A p, q \in DOMAIN seg : p < q => Before(seg[p], seg[q])

\* C5: the main mix, and the track buffer about to join it, hold produced
\* clips in script order: none reordered, none duplicated.
C5_MixInScriptOrder ==
    /\ InScriptOrder(final_audio \o track_audio)
    /\ \A p \in DOMAIN final_audio :
         \E q \in DOMAIN produced : produced[q] = final_audio[p]

C5_Witness ==
    /\ pc = "export_main"
    /\ Len(final_audio) >= 2
    /\ Before(final_audio[1], final_audio[2])

\* The step is an event-level synthesis failure: the dialogue call fails, the
\* dialogue duration cannot be read, or the standalone music call fails.
SynthesisFailureStep ==
    \/ /\ pc \in {"dialogue", "standalone"}
       /\ Len(calls') = Len(calls) + 1
       /\ ~Last(calls').ok
    \/ /\ pc = "duration"
       /\ pc' # "duration"
       /\ ~dialogue_file.readable

\* C6: an event-level synthesis failure sets the degraded flag and skips only
\* that event: nothing is appended and the loop goes on with the next event
\* of the same track.
C6_FailureSkipsOnlyTheEvent ==
    [][ SynthesisFailureStep =>
          /\ ~processing_successful'
          /\ pc' = "event_loop"
          /\ i' = i /\ j' = j
          /\ track_audio' = track_audio
          /\ final_audio' = final_audio ]_vars

\* A clip of a later event reached the main mix after a failed synthesis call.
C6_Witness ==
    /\ ~processing_successful
    /\ \E k \in DOMAIN calls, p \in DOMAIN final_audio :
         /\ calls[k].svc \in {"tts", "music"}
         /\ ~calls[k].ok
         /\ Before(calls[k], final_audio[p])

\* The step is the export step and it attempts the export of the main mix.
MainExportAttempted ==
    /\ Len(exports') = Len(exports) + 1
    /\ Last(exports').file = "main"

\* C7 as stated: after all tracks, the main mix is exported if the degraded
\* flag is not set, and not exported when it is set.
C7_ExportedIffNotDegraded ==
    [][ pc = "export_main" =>
          (MainExportAttempted <=> processing_successful) ]_vars

\* C7 amended: after all tracks, the export of the main mix is attempted
\* exactly when the degraded flag is not set and the mix is not empty;
\* otherwise nothing is exported.
C7_ExportedIffCleanAndNonEmpty ==
    [][ pc = "export_main" =>
          /\ MainExportAttempted <=>
                 (processing_successful /\ Dur(final_audio) > 0)
          /\ ~MainExportAttempted => exports' = exports ]_vars

C7_Witness ==
    /\ pc = "bgm"
    /\ processing_successful
    /\ exports = << Export("main", TRUE) >>

\* No dialogue or music synthesis call was made and no clip was assembled.
NoSynthesis ==
    /\ \A k \in DOMAIN calls : calls[k].svc = "openai"
    /\ produced = << >>
    /\ final_audio = << >>

\* Some track of the script was found not to be a list.
NonListTrackSeen ==
    \E k \in DOMAIN stdout : stdout[k].what = "track_not_list"

\* The reply parsed as JSON and its 'script' is missing or is no list.
ScriptMissingOrNoList ==
    audio_json_output.t # "none" /\ audio_json_output.script # "list"

\* C8 as stated: a reply that parses as JSON but holds no 'script' that is a
\* list of lists (script missing, script no list, or some track no list)
\* aborts the run: no synthesis call is made and nothing is assembled.
C8_MalformedReplyAborts ==
    (ScriptMissingOrNoList \/ NonListTrackSeen) =>
        (NoSynthesis /\ exports = << >>)

\* C8 amended: a reply that parses as JSON but whose 'script' is missing,
\* empty or no list ends the run before any track is read, with no synthesis
\* call and nothing assembled or exported; a track that is no list does not end
\* the run: it is skipped with a warning and the loop goes on with the next
\* track.
C8_MissingScriptAbortsBadTrackSkipped ==
    /\ [](ScriptMissingOrNoList =>
            /\ NoSynthesis
            /\ exports = << >>
            /\ i = 0
            /\ pc \in {"call_api", "setup", "done", "crashed"})
    /\ [][ (pc = "track_loop" /\ stdout' # stdout) =>
             /\ Last(stdout') = Line("Warning", "track_not_list", i + 1, 0)
             /\ pc' = "track_loop"
             /\ i' = i + 1
             /\ processing_successful' = processing_successful
             /\ final_audio' = final_audio ]_vars

\* The run ended at the 'script' check, with the directories already made.
C8_Witness ==
    /\ pc = "done"
    /\ audio_json_output = Reply("dict", TRUE, "nonlist")
    /\ temp_created
    /\ Last(stdout) = Line("Error", "script_missing", 0, 0)

\* C9: when the language model is unavailable, answers with an API error or
\* with text that is no JSON, get_audio_script_json returns None, and the run
\* ends without making the temporary directory, without a synthesis call and
\* without an export.
C9_NoReplyEndsRun ==
    (pc \notin {"start", "call_api"} /\ (calls = << >> \/ ~calls[1].ok)) =>
        /\ audio_json_output = NoReply
        /\ pc = "done"
        /\ ~temp_created
        /\ Len(calls) <= 1
        /\ NoSynthesis
        /\ exports = << >>

C9_Witness ==
    /\ pc = "done"
    /\ Len(calls) = 1
    /\ calls[1].svc = "openai"
    /\ ~calls[1].ok
    /\ audio_json_output = NoReply

\* The duration is 0, negative, or no integer (JSON true and false are no
\* integers).
BadDuration(d) == d.t # "int" \/ d.v <= 0

\* C10: a standalone event whose duration is 0, negative or no integer is
\* skipped before any music call, adds nothing to its track and prints exactly
\* one diagnostic; the loop goes on with the next event.
C10_BadDurationSkipped ==
    [][ ( /\ pc = "dispatch"
          /\ event.t = "dict"
          /\ event.keys = {"music", "duration"}
          /\ BadDuration(event.duration) ) =>
          /\ pc' = "event_loop"
          /\ calls' = calls
          /\ track_audio' = track_audio
          /\ Len(stdout') = Len(stdout) + 1 ]_vars

\* ---------------------------------------------- runs with any prompt request
\* main() as it behaves when the prompt builder hands it any of PromptRequests.
InitPrompt ==
    /\ pc = "start"
    /\ prompt_req \in PromptRequests
    /\ music_client = NoMusicClient
    /\ AudioSegment \in BOOLEAN
    /\ client \in BOOLEAN
    /\ audio_json_output = NoReply
    /\ temp_dir \in BOOLEAN          \* a previous run may have left it behind
    /\ temp_created = FALSE
    /\ final_audio = << >>
    /\ track_audio = << >>
    /\ processing_successful = TRUE
    /\ i = 0
    /\ j = 0
    /\ events_read = 0
    /\ event = NoEvent
    /\ dialogue_file = NoFile
    /\ dialogue_duration_ms = 0
    /\ music_file = NoFile
    /\ duration_sec = Absent
    /\ produced = << >>
    /\ calls = << >>
    /\ stdout = << >>
    /\ exports = << >>
    /\ bgm_mix = NoBgm
    /\ note = FALSE

SpecPrompt == InitPrompt /\ [][Next]_vars

\* -------------------------------------- generate_and_save_music step by step
\* What the service and the disk may do to one call: the answers of
\* MusicResponses and further ways to fail. post "bad_shape" is a JSON answer
\* whose audio_file is no dict or whose url is no string.
MusicEnvs ==
    MusicResponses(BGM_DURATION_SECONDS)
    \cup { MusicResponse("bad_shape", "none", "none", FALSE, 0),
           MusicResponse("ok", "http", "download_timeout", FALSE, 0),
           MusicResponse("ok", "http", "download_http_error", FALSE, 0),
           MusicResponse("ok", "http", "download_conn_error", FALSE, 0),
           MusicResponse("ok", "http", "ok", FALSE, 0),
           MusicResponse("ok", "data", "empty", FALSE, 0) }

\* The function is called on its own, outside a run of main().
InitMusic ==
    /\ pc = "start"
    /\ prompt_req = create_music_gen_prompt
    /\ music_client \in
         { [NoMusicClient EXCEPT !.step = "called", !.api_key = k,
                                 !.prompt_is_str = s, !.resp = r] :
             k \in BOOLEAN, s \in BOOLEAN, r \in MusicEnvs }
    /\ AudioSegment = TRUE
    /\ client = TRUE
    /\ audio_json_output = NoReply
    /\ temp_dir = FALSE
    /\ temp_created = FALSE
    /\ final_audio = << >>
    /\ track_audio = << >>
    /\ processing_successful = TRUE
    /\ i = 0
    /\ j = 0
    /\ events_read = 0
    /\ event = NoEvent
    /\ dialogue_file = NoFile
    /\ dialogue_duration_ms = 0
    /\ music_file = NoFile
    /\ duration_sec = Absent
    /\ produced = << >>
    /\ calls = << >>
    /\ stdout = << >>
    /\ exports = << >>
    /\ bgm_mix = NoBgm
    /\ note = FALSE

KeepMain ==
    /\ UNCHANGED << pc, prompt_req, processing_successful, calls, stdout >>
    /\ KeepRunOfMain /\ KeepLoop /\ KeepAudio /\ KeepEvent

MusicReturn(m, value) == [m EXCEPT !.step = "returned", !.result = value]

\* music_gen.py 37-41: the key check, and the print that slices the prompt; the
\* print stands before the try, so a prompt that cannot be sliced raises.
MusicCheckKey ==
    /\ music_client.step = "called"
    /\ music_client' =
           IF ~music_client.api_key THEN MusicReturn(music_client, "False")
           ELSE IF ~music_client.prompt_is_str
           THEN [music_client EXCEPT !.step = "raised", !.result = "raised"]
           ELSE [music_client EXCEPT !.step = "post"]
    /\ KeepMain

\* music_gen.py 55-64 with the handlers at 140-151.
MusicPost ==
    /\ music_client.step = "post"
    /\ LET m == [music_client EXCEPT !.posts = @ + 1]
       IN  music_client' =
               IF m.resp.post \in {"timeout", "http_error", "conn_error"}
               THEN MusicReturn(m, "False")
               ELSE [m EXCEPT !.step = "parse"]
    /\ KeepMain

\* Variant: every location is fetched.
IsDataUriNever(url) == FALSE

\* audio_url.startswith("data:")
IsDataUri(url) == url = "data"

\* music_gen.py 66-80 with the handlers at 152-161.
MusicParse ==
    /\ music_client.step = "parse"
    /\ LET m == music_client
       IN  music_client' =
               IF m.resp.post \in {"not_json", "bad_shape"}
               THEN MusicReturn(m, "False")
               ELSE IF m.resp.url = "none" THEN MusicReturn(m, "False")
               ELSE IF IsDataUri(m.resp.url) THEN [m EXCEPT !.step = "decode"]
               ELSE [m EXCEPT !.step = "download"]
    /\ KeepMain

\* music_gen.py 80-89.
MusicDecode ==
    /\ music_client.step = "decode"
    /\ LET m == music_client
       IN  music_client' =
               IF m.resp.payload = "bad_base64" THEN MusicReturn(m, "False")
               ELSE [m EXCEPT !.step = "save",
                              !.audio_content =
                                  IF m.resp.payload = "ok" THEN "bytes"
                                  ELSE "empty"]
    /\ KeepMain

\* music_gen.py 90-116, and 160-162 for any other exception of the download.
MusicDownload ==
    /\ music_client.step = "download"
    /\ LET m == [music_client EXCEPT !.fetches = @ + 1]
       IN  music_client' =
               IF m.resp.payload \in {"download_timeout", "download_http_error",
                                      "download_conn_error", "download_error"}
               THEN MusicReturn(m, "False")
               ELSE [m EXCEPT !.step = "save",
                              !.audio_content =
                                  IF m.resp.payload = "ok" THEN "bytes"
                                  ELSE "empty"]
    /\ KeepMain

\* music_gen.py 118-138.
MusicSave ==
    /\ music_client.step = "save"
    /\ LET m == music_client
       IN  music_client' =
               IF m.audio_content # "bytes" THEN MusicReturn(m, "False")
               ELSE IF m.resp.write
               THEN MusicReturn([m EXCEPT !.written = TRUE], "True")
               ELSE MusicReturn(m, "False")
    /\ KeepMain

NextMusic ==
    \/ MusicCheckKey
    \/ MusicPost
    \/ MusicParse
    \/ MusicDecode
    \/ MusicDownload
    \/ MusicSave

SpecMusic == InitMusic /\ [][NextMusic]_vars

\* ------------------------------------------- the looping of the background
\* main.py 297-309 on its own: the main mix of M ms is in final_audio, the
\* background clip of B ms has been generated and loaded, and the clip is looped
\* and trimmed. M and B are short clips of every length, and the two-minute mix
\* over a thirty-second clip.
InitBgm ==
    /\ pc = "bgm_loop"
    /\ prompt_req = create_music_gen_prompt
    /\ music_client = NoMusicClient
    /\ AudioSegment = TRUE
    /\ client = TRUE
    /\ audio_json_output = Reply("dict", TRUE, "list")
    /\ temp_dir = TRUE
    /\ temp_created = TRUE
    /\ \E M \in (1..MaxMixMs) \cup {125000}, B \in (1..MaxBgmMs) \cup {30000} :
         /\ final_audio = << Clip(1, 1, "music", M) >>
         /\ music_file = File(TRUE, B)
         /\ produced = final_audio
         /\ calls = << Call("openai", 0, 0, TRUE), MusicCall(1, 1, TRUE, Ceil(M, 1000)),
                       MusicCall(0, 0, TRUE, BGM_DURATION_SECONDS) >>
    /\ track_audio = << >>
    /\ processing_successful = TRUE
    /\ i = 1
    /\ j = 1
    /\ events_read = 1
    /\ event = NoEvent
    /\ dialogue_file = NoFile
    /\ dialogue_duration_ms = 0
    /\ duration_sec = Absent
    /\ stdout = << >>
    /\ exports = << Export("main", TRUE) >>
    /\ bgm_mix = NoBgm
    /\ note = FALSE

\* main.py 297-309: loops_needed, bgm_segment * loops_needed, and the slice.
LoopBgm ==
    /\ pc = "bgm_loop"
    /\ bgm_mix' = [loops_needed |-> LoopsNeeded(Dur(final_audio), music_file.ms),
                   ms |-> ExtendedBgm(Dur(final_audio), music_file.ms)]
    /\ pc' = "bgm_overlay"
    /\ KeepLoop /\ KeepAudio /\ KeepEvent
    /\ UNCHANGED << prompt_req, music_client >>
    /\ UNCHANGED << AudioSegment, client, audio_json_output, temp_dir,
                    temp_created, exports, note, processing_successful, calls,
                    stdout >>

NextBgm == LoopBgm

SpecBgm == InitBgm /\ [][NextBgm]_vars

\* ------------------------------------------------------------------ C11
\* C11: the music asked for a dialogue clip of d ms is s seconds long, where s
\* is the smallest integer with 1000 * s >= d.
C11_MusicRequestIsCeiling ==
    [][ (pc = "event_music" /\ Len(calls') = Len(calls) + 1)
        => LET s == Last(calls').sec
               d == dialogue_duration_ms
           IN  /\ Last(calls').svc = "music"
               /\ 1000 * s >= d
               /\ \A t \in 0..(s - 1) : 1000 * t < d ]_vars

\* A clip of 4200 ms was given five seconds of music, and a clip of exactly
\* 3000 ms would be given three.
C11_Witness ==
    /\ pc = "overlay"
    /\ dialogue_duration_ms = 4200
    /\ Last(calls).svc = "music"
    /\ Last(calls).sec = 5
    /\ MusicDurationSec(3000) = 3

\* ------------------------------------------------------------------ C12
\* C12: for a main mix of M > 0 ms and a background clip of B > 0 ms the number
\* of loops is the ceiling of M / B, and the looped and trimmed background is
\* exactly M ms long.
C12_BgmLoopedToMixLength ==
    pc = "bgm_overlay"
    => LET M == Dur(final_audio)
           B == music_file.ms
           n == bgm_mix.loops_needed
       IN  /\ M > 0 /\ B > 0
           /\ n * B >= M
           /\ (n - 1) * B < M
           /\ bgm_mix.ms = M

\* The mix of 125000 ms over a clip of 30000 ms: five loops, 125000 ms.
C12_Witness ==
    /\ pc = "bgm_overlay"
    /\ Dur(final_audio) = 125000
    /\ music_file.ms = 30000
    /\ bgm_mix = [loops_needed |-> 5, ms |-> 125000]

\* ------------------------------------------------------------------ C13
\* C13: when both syntheses of a dialogue event succeeded, the clip appended to
\* the track is exactly as long as the dialogue clip, whether the music clip is
\* shorter, as long, or longer; the overlay itself is such a clip.
C13_OverlayKeepsDialogueLength ==
    [][ pc = "overlay"
        => /\ \/ track_audio' = track_audio
              \/ /\ Len(track_audio') = Len(track_audio) + 1
                 /\ SubSeq(track_audio', 1, Len(track_audio)) = track_audio
                 /\ Last(track_audio').ms = dialogue_duration_ms
                 /\ Last(track_audio').ms = dialogue_file.ms
           /\ (Len(produced') > Len(produced) /\ Last(produced').kind = "mix")
              => /\ Last(produced').ms = dialogue_file.ms
                 /\ track_audio' = Append(track_audio, Last(produced')) ]_vars

\* An overlay of 4200 ms is the last clip of the track: its music was asked to
\* be 5 s long and came back shorter or longer than the speech.
C13_Witness ==
    /\ pc = "event_loop"
    /\ track_audio # << >>
    /\ Last(track_audio) = Clip(i, j, "mix", 4200)
    /\ Last(calls) = MusicCall(i, j, TRUE, 5)

\* ------------------------------------------------------------------ C14
BgmSynthesisFailed ==
    /\ calls # << >>
    /\ Last(calls).svc = "music"
    /\ Last(calls).i = 0
    /\ ~Last(calls).ok

\* C14: when the synthesis of the background music fails, no mix with
\* background is written, the main mix exported before is the only export and
\* stays, and the run is not marked failed: the flag is still set and the final
\* note about errors is not given.
C14_BgmFailureKeepsMainMix ==
    BgmSynthesisFailed
    => /\ exports = << Export("main", TRUE) >>
       /\ bgm_mix = NoBgm
       /\ processing_successful
       /\ ~note
       /\ Last(stdout) = Line("ERROR", "bgm_failed", 0, 0)

\* The run has ended after a failed synthesis of the background music.
C14_Witness ==
    /\ pc = "done"
    /\ BgmSynthesisFailed

\* ------------------------------------------------------------------ C15
\* C15: when the overlay of a dialogue event is computed, the music clip laid
\* under the speech is at least as long as the dialogue clip (it has been
\* extended to that length), and the overlay is as long as the dialogue clip.
C15_MusicCoversDialogue ==
    [][ (pc = "overlay" /\ Len(produced') > Len(produced)
           /\ Last(produced').kind = "mix")
        => /\ music_file.ms >= dialogue_file.ms
           /\ Last(produced').ms = dialogue_file.ms ]_vars

\* ------------------------------------------------------------------ C16
PromptIncomplete == ~prompt_req.system_prompt \/ ~prompt_req.prompt

\* C16: when the prompt request lacks its system prompt or its user prompt, the
\* run ends before any network call: no request goes to the language model,
\* the speech service or the music service, and the run never gets past the
\* call of get_audio_script_json.
C16_IncompletePromptNoCall ==
    PromptIncomplete
    => /\ calls = << >>
       /\ pc \in {"start", "call_api", "done"}
       /\ audio_json_output = NoReply
       /\ ~temp_created
       /\ exports = << >>

\* get_audio_script_json was called with a request that has a system prompt but
\* no user prompt, and the run has ended.
C16_Witness ==
    /\ pc = "done"
    /\ AudioSegment
    /\ client
    /\ prompt_req.system_prompt
    /\ ~prompt_req.prompt

\* ------------------------------------------------------------------ C17
\* Every call is one blocking step, so the log holds the calls in the order in
\* which they started, and each had returned before the next one started. The
\* log only grows at its end, and (track, event) order is transitive, so what
\* holds between each call and the one before it holds between any two calls.
NextCallInScriptOrder ==
    calls' # calls
    => LET b == Last(calls')
       IN  /\ calls' = Append(calls, b)
           /\ IF calls = << >> THEN b.svc = "openai"
              ELSE LET a == Last(calls)
                   IN  /\ b.svc # "openai"
                       /\ ~(a.svc = "music" /\ a.i = 0)
                       /\ (a.svc # "openai" /\ b.i # 0)
                          => \/ Before(a, b)
                             \/ /\ a.i = b.i /\ a.j = b.j
                                /\ a = Call("tts", a.i, a.j, TRUE)
                                /\ b.svc = "music"

MusicRequestAfterMeasuredDialogue ==
    (pc = "event_music" /\ Len(calls') > Len(calls))
    => /\ calls' = Append(calls, Last(calls'))
       /\ Last(calls) = Call("tts", i, j, TRUE)
       /\ dialogue_file.readable
       /\ dialogue_duration_ms = dialogue_file.ms

\* C17: the calls are made one after the other in script order: the call to the
\* language model is the first, no call of a later event or track comes before
\* a call of an earlier event, the call for the background music is the last,
\* and within a dialogue event the music call directly follows the successful
\* dialogue call of that event, after the clip was measured.
C17_CallsSequentialInScriptOrder ==
    [][NextCallInScriptOrder /\ MusicRequestAfterMeasuredDialogue]_vars

\* The dialogue and the music of the first event were requested, then the
\* dialogue of the second event.
C17_Witness ==
    /\ Len(calls) >= 4
    /\ calls[2] = Call("tts", 1, 1, TRUE)
    /\ calls[3].svc = "music" /\ calls[3].i = 1 /\ calls[3].j = 1
    /\ calls[4].svc = "tts" /\ calls[4].i = 1 /\ calls[4].j = 2

\* ------------------------------------------------------------------ C18
\* C18: generate_and_save_music returns True only after audio bytes that are
\* not empty were obtained and written to the output path; a data: location is
\* decoded without a second request, any other location is fetched exactly
\* once; a missing location and every failure of the request, the decoding, the
\* fetch or the write give False, never an exception: with a key and a string
\* prompt the call returns True exactly when the request, the location, the
\* payload and the write were all good.
C18_MusicSuccessOnlyAfterWrite ==
    LET m == music_client
    IN  /\ m.posts <= 1
        /\ m.fetches <= 1
        /\ m.resp.url = "data" => m.fetches = 0
        /\ m.written => m.audio_content = "bytes"
        /\ m.result = "True"
           => /\ m.written
              /\ m.posts = 1
              /\ m.resp.url = "http" => m.fetches = 1
        /\ m.prompt_is_str => m.result # "raised"
        /\ m.step = "returned"
           => /\ m.result \in {"True", "False"}
              /\ m.result = "True"
                 <=> (m.api_key /\ generate_and_save_music(m.resp))

\* A call returned True for an inline payload: one request, no fetch.
C18_Witness ==
    /\ music_client.step = "returned"
    /\ music_client.result = "True"
    /\ music_client.resp.url = "data"
    /\ music_client.posts = 1
    /\ music_client.fetches = 0
    /\ music_client.written

\* ------------------------------------------------------------------ C19
\* What the step at hand does with the event, read off the state change.
TakenAsDialogue == pc' = "dialogue"

TakenAsStandalone ==
    \/ pc' = "standalone"
    \/ stdout' = Append(stdout, Line("Warning", "invalid_duration", i, j))

DispatchByKeys ==
    (pc = "dispatch" /\ event.t = "dict")
    => LET hasDialogue == "dialogue" \in event.keys
           hasMusic == "music" \in event.keys
           hasDuration == "duration" \in event.keys
       IN  /\ TakenAsDialogue <=> (hasDialogue /\ hasMusic)
           /\ TakenAsDialogue => duration_sec' = Absent
           /\ TakenAsStandalone <=> (hasMusic /\ hasDuration /\ ~hasDialogue)
           /\ (~TakenAsDialogue /\ ~TakenAsStandalone)
              => /\ pc' = "event_loop"
                 /\ event' = NoEvent
                 /\ stdout' = Append(stdout, Line("Warning", "unrecognized", i, j))
                 /\ UNCHANGED << calls, produced, track_audio, final_audio,
                                 processing_successful >>

SynthesisOnlyInItsBranch ==
    /\ pc' \in {"dialogue", "standalone"} => pc = "dispatch"
    /\ (Len(calls') > Len(calls) /\ Last(calls').svc = "tts")
       => {"dialogue", "music"} \subseteq event.keys
    /\ (Len(calls') > Len(calls) /\ Last(calls').svc = "music"
          /\ Last(calls').i # 0)
       => \/ {"dialogue", "music"} \subseteq event.keys
          \/ /\ {"music", "duration"} \subseteq event.keys
             /\ "dialogue" \notin event.keys
    /\ Len(produced') > Len(produced)
       => \/ {"dialogue", "music"} \subseteq event.keys
          \/ /\ {"music", "duration"} \subseteq event.keys
             /\ "dialogue" \notin event.keys

\* C19: an event is taken as a dialogue event exactly when it has the keys
\* 'dialogue' and 'music', whether or not it has 'duration', which is then not
\* read; as a standalone music event exactly when it has 'music' and 'duration'
\* and no 'dialogue'; any other event causes no call and adds no clip.
C19_DispatchByKeyPresence ==
    [][DispatchByKeys /\ SynthesisOnlyInItsBranch]_vars

\* An event with all three keys was taken as a dialogue event, and its music
\* was asked to be as long as its speech (5 s), not as its 'duration' (2).
C19_Witness ==
    /\ pc = "overlay"
    /\ event.keys = {"dialogue", "music", "duration"}
    /\ event.duration = Value("int", 2)
    /\ Last(calls) = MusicCall(i, j, TRUE, 5)
    /\ duration_sec = Absent

\* ------------------------------------------------------------------ C20
SameRequest(a, b) == a.svc = b.svc /\ a.i = b.i /\ a.j = b.j

\* C20: nothing is retried: no event has two dialogue calls or two music calls,
\* the background music and the language model are asked at most once, so a
\* failed call is never made again; and an event without 'dialogue' has no
\* dialogue call.
C20_NoCallRepeated ==
    /\ \A k, l \in DOMAIN calls : k < l => ~SameRequest(calls[k], calls[l])
    /\ \A k \in DOMAIN calls :
         /\ calls[k].svc = "tts" => calls[k].i >= 1
         /\ calls[k].svc = "openai" => k = 1
    /\ Len(calls) <= 2 + 2 * events_read
    /\ (event.t = "dict" /\ "dialogue" \notin event.keys)
       => \A k \in DOMAIN calls :
            ~SameRequest(calls[k], Call("tts", i, j, TRUE))

\* The dialogue call of the first event failed, and the next call made is for
\* the second event.
C20_Witness ==
    /\ Len(calls) >= 3
    /\ calls[2] = Call("tts", 1, 1, FALSE)
    /\ calls[3].i = 1
    /\ calls[3].j = 2

\* ------------------------------------------------------------------ C21
BgmCallMade == \E k \in DOMAIN calls : calls[k].svc = "music" /\ calls[k].i = 0

\* C21: the mix with background is exported, or its export tried, only after
\* the main mix was exported successfully in the same run; when the export of
\* the main mix fails, the flag is cleared, the run ends with the note about
\* errors, the background music is never asked for and no second file is
\* exported.
C21_BgmMixOnlyAfterMainExport ==
    /\ \A k \in DOMAIN exports :
         exports[k].file = "bgm"
         => /\ k = 2
            /\ exports[1] = Export("main", TRUE)
    /\ BgmCallMade => (exports # << >> /\ exports[1] = Export("main", TRUE))
    /\ (exports # << >> /\ exports[1] = Export("main", FALSE))
       => /\ exports = << Export("main", FALSE) >>
          /\ ~processing_successful
          /\ ~BgmCallMade
          /\ bgm_mix = NoBgm
          /\ pc = "done" => note

\* A run has ended whose export of the main mix failed.
C21_Witness ==
    /\ pc = "done"
    /\ exports = << Export("main", FALSE) >>
    /\ note

\* ------------------------------------------------------------------ C22
FlagStep ==
    /\ (pc = "setup" /\ pc' = "track_loop") => processing_successful'
    /\ ~processing_successful => ~processing_successful'
    /\ note' => pc' = "done"
    /\ (pc = "finish" /\ pc' = "done") => (note' <=> ~processing_successful')
    /\ (pc # "finish" /\ pc' = "done") => (note' = note)

\* C22: the flag is true when the assembly begins; once a step has cleared it,
\* no later step of the run sets it again; and the closing note about errors
\* is printed exactly when the flag is false at the end of the run (a run that
\* returns before the assembly prints no note and clears no flag).
C22_FlagMonotoneAndReported ==
    [][FlagStep]_vars /\ [](pc = "done" => (note <=> ~processing_successful))

\* A run that lost an event, went on to the end and printed the note.
C22_Witness ==
    /\ pc = "done"
    /\ note
    /\ ~processing_successful
    /\ \E k \in DOMAIN calls : calls[k].svc = "tts" /\ ~calls[k].ok
    /\ Len(calls) >= 3
====
